---- MODULE Spec2Model ----
EXTENDS Integers, Sequences, FiniteSets, TLC

\* ---------------------------------------------------------------------------
\* Model of New-Overlord/app.py: MovementCalculator (movement quotes and hex
\* neighbours), TerrainClusterer (flood fill), the name generators and
\* generate_world.
\*
\* The specifications share the variables:
\*   SpecMove     direct calls of MovementCalculator.calculate_movement_time,
\*                interleaved with operations that consume random state;
\*   SpecHex      the /api/hex-movement handler (calculate_all_directions) on
\*                worlds supplied by the caller;
\*   SpecCluster  TerrainClusterer.find_clusters, one step per loop iteration;
\*   SpecGen      the /api/generate-world handler, one step per loop iteration
\*                (SpecGenFair: the same, with the handler running on).
\* ---------------------------------------------------------------------------

\* Bounds of the model (not program constants).
MaxCoord == 1
MaxSalt == 3
MaxRng == 1
MaxWidth == 4
MaxHeight == 4
MaxSeed == 2
MaxClusterWidth == 3
MaxClusterHeight == 2
MaxGenCells == 4
MaxDenseCells == 2

VARIABLES
    hashSalt,        \* the process's string-hash randomisation (hash() of str)
    rngState,        \* the state of the module-level random generator
    call,            \* the arguments of the calculate_movement_time calls
    quoted,          \* the calls made: the random state at the call, the value returned
    world_data,      \* the world handed to the movement handler / the clusterer
    query,           \* the cell (x, y) of the last movement query
    directions,      \* the list calculate_all_directions returned
    pc,              \* position of find_clusters: idle, scan, fill, done
    scan,            \* find_clusters' loop position <<x, y>>
    target_terrain,  \* flood_fill's target_terrain
    stack,           \* flood_fill's stack
    cluster,         \* flood_fill's cluster list
    visited,         \* find_clusters' visited set
    clusters,        \* TerrainClusterer.clusters, indexed by cluster_id + 1
    hex_to_cluster,  \* TerrainClusterer.hex_to_cluster
    gpc,             \* position of generate_world: idle, terrain, naming, settle, returned
    params,          \* the request's width, height, terrain_types, population_density
    gen_pos,         \* the terrain loops' position <<x, y>>
    geo_used,        \* geographic_generator.used_names
    settle_used,     \* settlement_generator.used_names
    name_index,      \* the cluster the naming loop is at (cluster_id + 1)
    num_settlements, \* generate_world's num_settlements
    placed_settlements, \* generate_world's placed_settlements
    attempts,        \* generate_world's attempts
    stale_names      \* names generate_name returned that used_names already held

moveVars == <<call, quoted>>
hexVars == <<query, directions>>
clusterVars == <<pc, scan, target_terrain, stack, cluster, visited, clusters, hex_to_cluster>>
genVars == <<gpc, params, gen_pos, geo_used, settle_used, name_index, num_settlements,
             placed_settlements, attempts, stale_names>>
vars == <<hashSalt, rngState, call, quoted, world_data, query, directions,
          pc, scan, target_terrain, stack, cluster, visited, clusters, hex_to_cluster,
          gpc, params, gen_pos, geo_used, settle_used, name_index, num_settlements,
          placed_settlements, attempts, stale_names>>

\* Python's None.
None == "None"

\* None where the other values are names: a name is a non-empty sequence of
\* parts (see the name generators), and the empty sequence stands for None.
NoName == <<>>

\* No generate_world request is being handled.
GenIdle ==
    /\ gpc = "idle"
    /\ params = None
    /\ gen_pos = <<0, 0>>
    /\ geo_used = {}
    /\ settle_used = {}
    /\ name_index = 0
    /\ num_settlements = 0
    /\ placed_settlements = 0
    /\ attempts = 0
    /\ stale_names = {}

Max(a, b) == IF a >= b THEN a ELSE b

\* ---------------------------------------------------------------------------
\* MovementCalculator.use_basic_movement_data
\* ---------------------------------------------------------------------------

terrain_movement_costs ==
    [plains    |-> [base_exit_time |-> 2, base_enter_time |-> 2, passable |-> TRUE],
     hills     |-> [base_exit_time |-> 4, base_enter_time |-> 4, passable |-> TRUE],
     mountains |-> [base_exit_time |-> 8, base_enter_time |-> 8, passable |-> FALSE],
     forests   |-> [base_exit_time |-> 5, base_enter_time |-> 5, passable |-> TRUE],
     swamps    |-> [base_exit_time |-> 7, base_enter_time |-> 7, passable |-> TRUE],
     deserts   |-> [base_exit_time |-> 6, base_enter_time |-> 6, passable |-> TRUE]]

min_bonus == 0
max_bonus == 3

\* The fixed result of a flying query, and the riding factor 0.67 in hundredths.
FlyingDays == 4
RidePercent == 67
HashModulus == 1000

\* terrain_costs.get(terrain, terrain_costs["plains"])
TerrainCost(terrain) ==
    IF terrain \in DOMAIN terrain_movement_costs
    THEN terrain_movement_costs[terrain]
    ELSE terrain_movement_costs["plains"]

\* f"{from_coords[0]},{from_coords[1]}-{to_coords[0]},{to_coords[1]}": the four
\* integers in decimal, separated by "," "-" ",". The text determines the four
\* integers and is kept as their tuple.
CoordString(from_coords, to_coords) ==
    <<from_coords[1], from_coords[2], to_coords[1], to_coords[2]>>

\* hash(s) % 1000 of a str: a function of the text that is fixed for the life of
\* the process and differs between processes (hash randomisation); the salt is
\* the process's choice. The result of % 1000 is in 0..999 also for a negative
\* hash.
StrHashMod(s) ==
    (hashSalt + 7 * s[1] + 13 * s[2] + 31 * s[3] + 101 * s[4]) % HashModulus

\* A variant that draws the variation from the random generator.
CalculateMovementTimeAmbient(from_terrain, to_terrain, movement_type, from_coords, to_coords) ==
    LET from_data == TerrainCost(from_terrain)
        to_data == TerrainCost(to_terrain)
        base_min == from_data.base_exit_time + to_data.base_enter_time + min_bonus
        base_max == from_data.base_exit_time + to_data.base_enter_time + max_bonus
        specific_time == base_min + (rngState % (base_max - base_min + 1))
    IN  IF ~to_data.passable
        THEN [days |-> None, impassable |-> TRUE, reason |-> to_terrain,
              requirements |-> <<>>]
        ELSE IF movement_type = "flying"
        THEN [days |-> FlyingDays, impassable |-> FALSE, movement_type |-> "flying"]
        ELSE IF movement_type = "riding"
        THEN [days |-> Max(1, (specific_time * RidePercent) \div 100),
              impassable |-> FALSE, movement_type |-> "riding"]
        ELSE [days |-> specific_time, impassable |-> FALSE, movement_type |-> "walking"]

\* A variant whose variation can reach one day past max_bonus.
CalculateMovementTimeWide(from_terrain, to_terrain, movement_type, from_coords, to_coords) ==
    LET from_data == TerrainCost(from_terrain)
        to_data == TerrainCost(to_terrain)
        base_min == from_data.base_exit_time + to_data.base_enter_time + min_bonus
        base_max == from_data.base_exit_time + to_data.base_enter_time + max_bonus
        specific_time ==
            IF from_coords # None /\ to_coords # None
            THEN base_min + (StrHashMod(CoordString(from_coords, to_coords))
                             % (base_max - base_min + 2))
            ELSE (base_min + base_max) \div 2
    IN  IF ~to_data.passable
        THEN [days |-> None, impassable |-> TRUE, reason |-> to_terrain,
              requirements |-> <<>>]
        ELSE IF movement_type = "flying"
        THEN [days |-> FlyingDays, impassable |-> FALSE, movement_type |-> "flying"]
        ELSE IF movement_type = "riding"
        THEN [days |-> Max(1, (specific_time * RidePercent) \div 100),
              impassable |-> FALSE, movement_type |-> "riding"]
        ELSE [days |-> specific_time, impassable |-> FALSE, movement_type |-> "walking"]

\* MovementCalculator.calculate_movement_time. The impassable result carries the
\* destination terrain as its reason; the basic table has no
\* special_requirements, so requirements is the empty list. int(specific_time * 0.67) is the floor of
\* 67 hundredths of specific_time (the two agree for every specific_time the
\* cost table can produce).
CalculateMovementTime(from_terrain, to_terrain, movement_type, from_coords, to_coords) ==
    LET from_data == TerrainCost(from_terrain)
        to_data == TerrainCost(to_terrain)
        base_min == from_data.base_exit_time + to_data.base_enter_time + min_bonus
        base_max == from_data.base_exit_time + to_data.base_enter_time + max_bonus
        specific_time ==
            IF from_coords # None /\ to_coords # None
            THEN base_min + (StrHashMod(CoordString(from_coords, to_coords))
                             % (base_max - base_min + 1))
            ELSE (base_min + base_max) \div 2
    IN  IF ~to_data.passable
        THEN [days |-> None, impassable |-> TRUE, reason |-> to_terrain,
              requirements |-> <<>>]
        ELSE IF movement_type = "flying"
        THEN [days |-> FlyingDays, impassable |-> FALSE, movement_type |-> "flying"]
        ELSE IF movement_type = "riding"
        THEN [days |-> Max(1, (specific_time * RidePercent) \div 100),
              impassable |-> FALSE, movement_type |-> "riding"]
        ELSE [days |-> specific_time, impassable |-> FALSE, movement_type |-> "walking"]

\* ---------------------------------------------------------------------------
\* Inputs of the direct calls
\* ---------------------------------------------------------------------------

\* The six terrains of the cost table and one the table does not know.
Terrains == {"plains", "hills", "mountains", "forests", "swamps", "deserts", "water"}
MovementTypes == {"walking", "riding", "flying", "sailing"}
\* from_coords / to_coords: a coordinate pair, or None (the default).
CoordArgs == ((0..MaxCoord) \X (0..1)) \cup {None}

NoCall == [from_terrain |-> None, to_terrain |-> None, movement_type |-> None,
           from_coords |-> None, to_coords |-> None]

\* ---------------------------------------------------------------------------
\* SpecMove: calls of calculate_movement_time with one argument list, between
\* operations that draw from the random generator
\* ---------------------------------------------------------------------------

CallArgs ==
    [from_terrain : Terrains, to_terrain : Terrains, movement_type : MovementTypes,
     from_coords : CoordArgs, to_coords : CoordArgs]

InitMove ==
    /\ hashSalt \in 0..MaxSalt
    /\ rngState = 0
    /\ call \in CallArgs
    /\ quoted = {}
    /\ world_data = None
    /\ query = None
    /\ directions = <<>>
    /\ pc = "idle"
    /\ scan = <<0, 0>>
    /\ target_terrain = None
    /\ stack = <<>>
    /\ cluster = <<>>
    /\ visited = {}
    /\ clusters = <<>>
    /\ hex_to_cluster = <<>>
    /\ GenIdle

\* One call of calculate_movement_time: it reads its arguments, the cost table
\* and the string hash, and assigns nothing; its return value is recorded with
\* the random state it ran in.
MovementCall ==
    /\ quoted' = quoted \cup
           {[rng |-> rngState,
             quote |-> CalculateMovementTime(call.from_terrain, call.to_terrain,
                           call.movement_type, call.from_coords, call.to_coords)]}
    /\ UNCHANGED genVars
    /\ UNCHANGED <<hashSalt, rngState, call, world_data, hexVars, clusterVars>>

\* Any operation that draws from the module-level random generator
\* (random.choice, random.randint in world and name generation).
AmbientRandom ==
    /\ rngState' = (rngState + 1) % (MaxRng + 1)
    /\ UNCHANGED genVars
    /\ UNCHANGED <<hashSalt, moveVars, world_data, hexVars, clusterVars>>

NextMove == MovementCall \/ AmbientRandom

SpecMove == InitMove /\ [][NextMove]_vars

\* ---------------------------------------------------------------------------
\* MovementCalculator: hex neighbours and direction names
\* ---------------------------------------------------------------------------

\* f"{x},{y}", the key of a cell in world_data["hexes"]: the two integers in
\* decimal separated by a comma. The text determines the pair and is kept as it.
HexId(x, y) == <<x, y>>

\* MovementCalculator.get_hex_neighbors: the candidates of the row's parity, in
\* the order of the list, those outside the grid dropped.
GetHexNeighbors(x, y, width, height) ==
    LET potential ==
            IF y % 2 = 0
            THEN << <<x - 1, y>>, <<x + 1, y>>, <<x, y - 1>>,
                    <<x + 1, y - 1>>, <<x, y + 1>>, <<x + 1, y + 1>> >>
            ELSE << <<x - 1, y>>, <<x + 1, y>>, <<x - 1, y - 1>>,
                    <<x, y - 1>>, <<x - 1, y + 1>>, <<x, y + 1>> >>
        InGrid(n) == 0 <= n[1] /\ n[1] < width /\ 0 <= n[2] /\ n[2] < height
    IN  SelectSeq(potential, InGrid)

\* A variant that names the west neighbour of an odd row Southwest.
GetDirectionNameOddWest(from_x, from_y, to_x, to_y) ==
    LET dx == to_x - from_x
        dy == to_y - from_y
    IN  IF from_y % 2 = 1
        THEN CASE dx = 0 /\ dy = -1 -> "North"
               [] dx = 1 /\ dy = -1 -> "Northeast"
               [] dx = 1 /\ dy = 0 -> "Southeast"
               [] dx = 0 /\ dy = 1 -> "South"
               [] dx = -1 /\ dy = 0 -> "Southwest"
               [] dx = -1 /\ dy = 1 -> "Northwest"
               [] OTHER -> "Unknown"
        ELSE CASE dx = 0 /\ dy = -1 -> "North"
               [] dx = 1 /\ dy = -1 -> "Northeast"
               [] dx = 1 /\ dy = 0 -> "Southeast"
               [] dx = 0 /\ dy = 1 -> "South"
               [] dx = -1 /\ dy = 1 -> "Southwest"
               [] dx = -1 /\ dy = 0 -> "Northwest"
               [] OTHER -> "Unknown"

\* MovementCalculator.get_direction_name: the two branches test the same six
\* offsets; an offset that is none of them is "Unknown".
GetDirectionName(from_x, from_y, to_x, to_y) ==
    LET dx == to_x - from_x
        dy == to_y - from_y
    IN  IF from_y % 2 = 1
        THEN CASE dx = 0 /\ dy = -1 -> "North"
               [] dx = 1 /\ dy = -1 -> "Northeast"
               [] dx = 1 /\ dy = 0 -> "Southeast"
               [] dx = 0 /\ dy = 1 -> "South"
               [] dx = -1 /\ dy = 1 -> "Southwest"
               [] dx = -1 /\ dy = 0 -> "Northwest"
               [] OTHER -> "Unknown"
        ELSE CASE dx = 0 /\ dy = -1 -> "North"
               [] dx = 1 /\ dy = -1 -> "Northeast"
               [] dx = 1 /\ dy = 0 -> "Southeast"
               [] dx = 0 /\ dy = 1 -> "South"
               [] dx = -1 /\ dy = 1 -> "Southwest"
               [] dx = -1 /\ dy = 0 -> "Northwest"
               [] OTHER -> "Unknown"

direction_order == <<"North", "Northeast", "Southeast", "South", "Southwest", "Northwest">>

\* The sort key of calculate_all_directions: the index in direction_order, 99
\* for a name that is not in it.
DirectionKey(d) ==
    IF \E i \in 1..Len(direction_order) : direction_order[i] = d.direction
    THEN (CHOOSE i \in 1..Len(direction_order) : direction_order[i] = d.direction) - 1
    ELSE 99

\* list.sort(key=...): stable, so the entries of one key keep their order.
SortByDirection(ds) ==
    LET WithKey(k) == LET Has(d) == DirectionKey(d) = k IN SelectSeq(ds, Has)
    IN  WithKey(0) \o WithKey(1) \o WithKey(2) \o WithKey(3) \o WithKey(4)
            \o WithKey(5) \o WithKey(99)

\* The entry calculate_all_directions appends for one neighbour. target_name and
\* target_id are copies of the neighbour's geographic_name and location_id and
\* are left out.
DirectionEntry(x, y, n, world) ==
    LET current_terrain == world.hexes[HexId(x, y)].terrain
        target_terrain_ == world.hexes[HexId(n[1], n[2])].terrain
    IN  [direction |-> GetDirectionName(x, y, n[1], n[2]),
         target_terrain |-> target_terrain_,
         coordinates |-> n,
         movement |->
            [walking |-> CalculateMovementTime(current_terrain, target_terrain_,
                                               "walking", <<x, y>>, n),
             riding |-> CalculateMovementTime(current_terrain, target_terrain_,
                                              "riding", <<x, y>>, n),
             flying |-> CalculateMovementTime(current_terrain, target_terrain_,
                                              "flying", <<x, y>>, n)]]

\* MovementCalculator.calculate_all_directions.
CalculateAllDirections(x, y, world) ==
    IF HexId(x, y) \notin DOMAIN world.hexes
    THEN <<>>
    ELSE LET neighbors == GetHexNeighbors(x, y, world.width, world.height)
             Present(n) == HexId(n[1], n[2]) \in DOMAIN world.hexes
             found == SelectSeq(neighbors, Present)
         IN  SortByDirection([i \in 1..Len(found) |-> DirectionEntry(x, y, found[i], world)])

\* ---------------------------------------------------------------------------
\* SpecHex: the /api/hex-movement handler on a world supplied by the caller
\* ---------------------------------------------------------------------------

Cells(width, height) == (0..(width - 1)) \X (0..(height - 1))

\* The worlds the handler is given: every size up to MaxWidth x MaxHeight, either
\* value of the east-west wrap flag, terrain laid out so that every cell has
\* neighbours of other terrains, impassable ones among them.
HexPalette == <<"plains", "mountains", "hills">>

PatternTerrain(seed, c) == HexPalette[((seed + c[1] + 2 * c[2]) % Len(HexPalette)) + 1]

HexWorlds ==
    {[width |-> w, height |-> h, wrap_east_west |-> wrap,
      hexes |-> [c \in Cells(w, h) |-> [terrain |-> PatternTerrain(seed, c)]]] :
        w \in 1..MaxWidth, h \in 1..MaxHeight, wrap \in BOOLEAN, seed \in 0..MaxSeed}

InitHex ==
    /\ hashSalt \in 0..MaxSalt
    /\ rngState = 0
    /\ call = NoCall
    /\ quoted = {}
    /\ world_data \in HexWorlds
    /\ query = None
    /\ directions = <<>>
    /\ pc = "idle"
    /\ scan = <<0, 0>>
    /\ target_terrain = None
    /\ stack = <<>>
    /\ cluster = <<>>
    /\ visited = {}
    /\ clusters = <<>>
    /\ hex_to_cluster = <<>>
    /\ GenIdle

\* get_hex_movement(x, y): a query for a cell of the grid, or for the column
\* just east of it, which has no cell.
HexMovement ==
    \E x \in 0..world_data.width, y \in 0..(world_data.height - 1) :
        /\ query' = <<x, y>>
        /\ directions' = CalculateAllDirections(x, y, world_data)
        /\ UNCHANGED genVars
        /\ UNCHANGED <<hashSalt, rngState, moveVars, world_data, clusterVars>>

NextHex == HexMovement

SpecHex == InitHex /\ [][NextHex]_vars

\* ---------------------------------------------------------------------------
\* TerrainClusterer
\* ---------------------------------------------------------------------------

\* TerrainClusterer.get_hex_neighbors: the six candidates of the row's parity,
\* unfiltered.
ClustererNeighbors(x, y) ==
    IF y % 2 = 0
    THEN << <<x - 1, y>>, <<x + 1, y>>, <<x, y - 1>>,
            <<x + 1, y - 1>>, <<x, y + 1>>, <<x + 1, y + 1>> >>
    ELSE << <<x - 1, y>>, <<x + 1, y>>, <<x - 1, y - 1>>,
            <<x, y - 1>>, <<x - 1, y + 1>>, <<x, y + 1>> >>

\* A variant of the test on a popped cell that forgets the visited set.
SkipPoppedTerrainOnly(hex_id) ==
    \/ hex_id \notin DOMAIN world_data.hexes
    \/ world_data.hexes[hex_id].terrain # target_terrain

\* flood_fill's test on a popped cell: it is skipped when it was visited, is no
\* cell of the world or has another terrain.
SkipPopped(hex_id) ==
    \/ hex_id \in visited
    \/ hex_id \notin DOMAIN world_data.hexes
    \/ world_data.hexes[hex_id].terrain # target_terrain

\* flood_fill's test on a neighbour before it is pushed; `seen` is the visited
\* set with the popped cell added.
Pushable(n, seen) ==
    /\ 0 <= n[1] /\ n[1] < world_data.width
    /\ 0 <= n[2] /\ n[2] < world_data.height
    /\ HexId(n[1], n[2]) \notin seen
    /\ HexId(n[1], n[2]) \in DOMAIN world_data.hexes
    /\ world_data.hexes[HexId(n[1], n[2])].terrain = target_terrain

\* The position after <<x, y>> in "for y in range(height): for x in range(width)".
NextScan(pos) ==
    IF pos[1] + 1 < world_data.width
    THEN <<pos[1] + 1, pos[2]>>
    ELSE <<0, pos[2] + 1>>

ScanEnded(pos) == pos[2] >= world_data.height

\* The worlds generate_world hands to the clusterer: a cell for every
\* coordinate, east-west wrap set, each terrain an independent choice from the
\* palette.
ClusterPalette == {"plains", "hills"}

ClusterWorlds ==
    UNION {
        {[width |-> w, height |-> h, wrap_east_west |-> TRUE,
          hexes |-> [c \in Cells(w, h) |-> [terrain |-> t[c]]]] :
            t \in [Cells(w, h) -> ClusterPalette]} :
        w \in 1..MaxClusterWidth, h \in 1..MaxClusterHeight}

\* TerrainClusterer(world_data) followed by the entry of find_clusters.
InitCluster ==
    /\ hashSalt = 0
    /\ rngState = 0
    /\ call = NoCall
    /\ quoted = {}
    /\ world_data \in ClusterWorlds
    /\ query = None
    /\ directions = <<>>
    /\ pc = "scan"
    /\ scan = <<0, 0>>
    /\ target_terrain = None
    /\ stack = <<>>
    /\ cluster = <<>>
    /\ visited = {}
    /\ clusters = <<>>
    /\ hex_to_cluster = <<>>
    /\ GenIdle

\* One iteration of find_clusters' loops on a cell that is visited already (or
\* is no cell of the world): nothing to do.
ScanSkip ==
    /\ pc = "scan"
    /\ ~ScanEnded(scan)
    /\ (HexId(scan[1], scan[2]) \in visited
            \/ HexId(scan[1], scan[2]) \notin DOMAIN world_data.hexes)
    /\ scan' = NextScan(scan)
    /\ UNCHANGED genVars
    /\ UNCHANGED <<hashSalt, rngState, moveVars, world_data, hexVars, pc,
                   target_terrain, stack, cluster, visited, clusters, hex_to_cluster>>

\* One iteration on an unvisited cell: the call of flood_fill, up to its loop.
ScanStart ==
    /\ pc = "scan"
    /\ ~ScanEnded(scan)
    /\ HexId(scan[1], scan[2]) \notin visited
    /\ HexId(scan[1], scan[2]) \in DOMAIN world_data.hexes
    /\ target_terrain' = world_data.hexes[HexId(scan[1], scan[2])].terrain
    /\ stack' = <<scan>>
    /\ cluster' = <<>>
    /\ pc' = "fill"
    /\ UNCHANGED genVars
    /\ UNCHANGED <<hashSalt, rngState, moveVars, world_data, hexVars, scan,
                   visited, clusters, hex_to_cluster>>

\* One iteration of flood_fill's while loop: pop the last cell; skip it, or
\* visit it, append it to the cluster and push its pushable neighbours in the
\* order of get_hex_neighbors.
FloodFillStep ==
    /\ pc = "fill"
    /\ stack # <<>>
    /\ LET top == stack[Len(stack)]
           rest == SubSeq(stack, 1, Len(stack) - 1)
           hex_id == HexId(top[1], top[2])
       IN  IF SkipPopped(hex_id)
           THEN /\ stack' = rest
                /\ UNCHANGED <<visited, cluster>>
           ELSE LET seen == visited \cup {hex_id}
                    CanPush(n) == Pushable(n, seen)
                IN  /\ visited' = seen
                    /\ cluster' = Append(cluster, hex_id)
                    /\ stack' = rest \o SelectSeq(ClustererNeighbors(top[1], top[2]), CanPush)
    /\ UNCHANGED genVars
    /\ UNCHANGED <<hashSalt, rngState, moveVars, world_data, hexVars, pc, scan,
                   target_terrain, clusters, hex_to_cluster>>

\* flood_fill returns on an empty stack; find_clusters records a non-empty
\* cluster under the next cluster_id, maps its cells to it and moves on.
FloodFillReturn ==
    /\ pc = "fill"
    /\ stack = <<>>
    /\ IF cluster # <<>>
       THEN LET cluster_id == Len(clusters)
                members == {cluster[i] : i \in 1..Len(cluster)}
            IN  /\ clusters' = Append(clusters,
                        [terrain |-> target_terrain, hexes |-> cluster, name |-> NoName])
                /\ hex_to_cluster' =
                        [h \in (DOMAIN hex_to_cluster) \cup members |->
                            IF h \in members THEN cluster_id ELSE hex_to_cluster[h]]
       ELSE UNCHANGED <<clusters, hex_to_cluster>>
    /\ scan' = NextScan(scan)
    /\ pc' = "scan"
    /\ UNCHANGED genVars
    /\ UNCHANGED <<hashSalt, rngState, moveVars, world_data, hexVars,
                   target_terrain, stack, cluster, visited>>

\* The loops are exhausted: find_clusters returns self.clusters.
FindClustersReturn ==
    /\ pc = "scan"
    /\ ScanEnded(scan)
    /\ pc' = "done"
    /\ UNCHANGED genVars
    /\ UNCHANGED <<hashSalt, rngState, moveVars, world_data, hexVars, scan,
                   target_terrain, stack, cluster, visited, clusters, hex_to_cluster>>

NextCluster == ScanSkip \/ ScanStart \/ FloodFillStep \/ FloodFillReturn \/ FindClustersReturn

SpecCluster == InitCluster /\ [][NextCluster]_vars

\* ---------------------------------------------------------------------------
\* GeographicNameGenerator and SettlementNameGenerator
\* ---------------------------------------------------------------------------

\* A string built from parts is the sequence of its parts: "Golden Plains" is
\* <<"Golden", "Plains">>, "Goldvale" is <<"Gold", "vale">>, "Goldvale 2" is
\* <<"Gold", "vale", 2>>. No part of the tables below holds a space or a digit
\* and no two sequences of parts spell the same string, so two names are equal
\* as strings exactly when they are equal as sequences.
Range(list) == {list[i] : i \in 1..Len(list)}

\* The bound of the generators' "while attempts < 50" loops, the bound of
\* their "counter < 100" loops, and the bound of the placement loop.
NameAttempts == 50
CounterLimit == 100
PlacementAttempts == 50

\* name_data of the geographic generator, as load_name_data reads it from
\* config/geographic-names.json: the layout of the built-in table, with few
\* enough names for clusters of one terrain to run out of fresh ones. "water"
\* has no entry, as in the built-in table.
geographic_name_data ==
    [geographic_naming_styles |->
        [fantasy |->
            [plains    |-> [prefixes |-> <<"Golden", "Green">>, suffixes |-> <<"Plains">>],
             mountains |-> [prefixes |-> <<"Iron">>, suffixes |-> <<"Peaks">>]]],
     terrain_cultural_preferences |->
        [plains |-> <<"fantasy">>, mountains |-> <<"fantasy">>]]

\* choose_cultural_style of either generator: the styles random.choice can
\* return for the terrain, "fantasy" for a terrain without preferences.
ChooseCulturalStyle(name_data, terrain) ==
    IF terrain \in DOMAIN name_data.terrain_cultural_preferences
    THEN Range(name_data.terrain_cultural_preferences[terrain])
    ELSE {"fantasy"}

\* A variant of create_basic_name without the default for unlisted terrains.
CreateBasicGeographicNameNoDefault(terrain) ==
    CASE terrain = "plains"    -> <<"Great", "Plains">>
      [] terrain = "hills"     -> <<"Rolling", "Hills">>
      [] terrain = "mountains" -> <<"High", "Mountains">>
      [] terrain = "forests"   -> <<"Deep", "Forest">>
      [] terrain = "swamps"    -> <<"Dark", "Marshes">>
      [] terrain = "deserts"   -> <<"Endless", "Desert">>
      [] OTHER                 -> NoName

\* GeographicNameGenerator.create_basic_name.
CreateBasicGeographicName(terrain) ==
    CASE terrain = "plains"    -> <<"Great", "Plains">>
      [] terrain = "hills"     -> <<"Rolling", "Hills">>
      [] terrain = "mountains" -> <<"High", "Mountains">>
      [] terrain = "forests"   -> <<"Deep", "Forest">>
      [] terrain = "swamps"    -> <<"Dark", "Marshes">>
      [] terrain = "deserts"   -> <<"Endless", "Desert">>
      [] OTHER                 -> <<"Unknown", "Land">>

\* The names either generator's attempt loop can leave with, entered with
\* `tried` stale draws behind it (the loop's attempts): `drawn` is what one draw can produce. A
\* fresh draw breaks the loop; a stale one counts an attempt and is what the
\* loop leaves with only when that was the last attempt.
RECURSIVE AttemptLoop(_, _, _)
AttemptLoop(tried, drawn, used_names) ==
    LET fresh == drawn \ used_names
        stale == drawn \cap used_names
    IN  fresh \cup
        (IF stale = {} THEN {}
         ELSE IF tried + 1 < NameAttempts
              THEN AttemptLoop(tried + 1, drawn, used_names)
              ELSE stale)

\* "while f'{base_name} {counter}' in self.used_names and counter < 100:
\* counter += 1": the counter the loop ends with.
RECURSIVE CounterLoop(_, _, _)
CounterLoop(base_name, counter, used_names) ==
    IF Append(base_name, counter) \in used_names /\ counter < CounterLimit
    THEN CounterLoop(base_name, counter + 1, used_names)
    ELSE counter

\* The tail of either generator: a name that is in used_names gets a counter,
\* from 2 on.
Disambiguate(name, used_names) ==
    IF name \in used_names
    THEN Append(name, CounterLoop(name, 2, used_names))
    ELSE name

\* GeographicNameGenerator.generate_geographic_name: the outcomes of one call,
\* each the name returned and used_names after the call. A terrain without
\* naming data gets create_basic_name's name, and used_names is neither read
\* nor written.
GenerateGeographicName(terrain, used_names) ==
    UNION {
        LET style_data ==
                IF cultural_style \in DOMAIN geographic_name_data.geographic_naming_styles
                THEN geographic_name_data.geographic_naming_styles[cultural_style]
                ELSE <<>>
        IN  IF terrain \notin DOMAIN style_data
            THEN {[name |-> CreateBasicGeographicName(terrain), used_names |-> used_names]}
            ELSE LET terrain_data == style_data[terrain]
                     drawn == {<<prefix, suffix>> :
                                  prefix \in Range(terrain_data.prefixes),
                                  suffix \in Range(terrain_data.suffixes)}
                 IN  {[name |-> Disambiguate(n, used_names),
                       used_names |-> used_names \cup {Disambiguate(n, used_names)}] :
                           n \in AttemptLoop(0, drawn, used_names)} :
        cultural_style \in ChooseCulturalStyle(geographic_name_data, terrain)}

\* name_data of the settlement generator, as load_name_data reads it from
\* config/settlement-names.json: the layout of the built-in table plus the
\* unique_city_names create_name looks for.
settlement_name_data ==
    [cultural_naming_styles |->
        [fantasy |-> [prefixes |-> <<"Gold", "Stone">>, suffixes |-> <<"vale">>,
                      patterns |-> <<"prefix + suffix">>]],
     unique_city_names |-> [fantasy |-> <<"Highgate">>],
     terrain_cultural_preferences |->
        [plains |-> <<"fantasy">>, mountains |-> <<"fantasy">>]]

\* SettlementNameGenerator.generate_compound_name: the names it can return.
GenerateCompoundName(style_data) ==
    UNION {
        IF pattern = "prefix + middle + suffix" /\ "middle_parts" \in DOMAIN style_data
        THEN {<<prefix, middle, suffix>> :
                 prefix \in Range(style_data.prefixes),
                 middle \in Range(style_data.middle_parts),
                 suffix \in Range(style_data.suffixes)}
        ELSE {<<prefix, suffix>> :
                 prefix \in Range(style_data.prefixes),
                 suffix \in Range(style_data.suffixes)} :
        pattern \in Range(style_data.patterns)}

\* SettlementNameGenerator.create_basic_name.
CreateBasicSettlementName ==
    {<<prefix, suffix>> :
        prefix \in {"Gold", "Silver", "Stone", "River", "Green", "Iron"},
        suffix \in {"vale", "ford", "wood", "haven", "ridge", "burg"}}

\* SettlementNameGenerator.create_name: the names one call can return. For a
\* city of a style with unique city names, random.random() < 0.4 may hold, and
\* then an unused city name is returned when there is one.
CreateName(terrain, settlement_type, used_names) ==
    UNION {
        IF cultural_style \notin DOMAIN settlement_name_data.cultural_naming_styles
        THEN CreateBasicSettlementName
        ELSE LET style_data == settlement_name_data.cultural_naming_styles[cultural_style]
                 unused_names ==
                     IF /\ settlement_type = "city"
                        /\ "unique_city_names" \in DOMAIN settlement_name_data
                        /\ cultural_style \in DOMAIN settlement_name_data.unique_city_names
                     THEN {<<n>> : n \in Range(settlement_name_data.unique_city_names[cultural_style])}
                              \ used_names
                     ELSE {}
             IN  unused_names \cup GenerateCompoundName(style_data) :
        cultural_style \in ChooseCulturalStyle(settlement_name_data, terrain)}

\* A variant of generate_name that returns what the attempt loop left with.
GenerateNameNoCounter(terrain, settlement_type, used_names) ==
    {[name |-> n, used_names |-> used_names \cup {n}] :
        n \in AttemptLoop(0, CreateName(terrain, settlement_type, used_names), used_names)}

\* SettlementNameGenerator.generate_name: the outcomes of one call, each the
\* name returned and used_names after the call.
GenerateName(terrain, settlement_type, used_names) ==
    {[name |-> Disambiguate(n, used_names),
      used_names |-> used_names \cup {Disambiguate(n, used_names)}] :
        n \in AttemptLoop(0, CreateName(terrain, settlement_type, used_names), used_names)}

\* ---------------------------------------------------------------------------
\* generate_world
\* ---------------------------------------------------------------------------

\* get_terrain_resources.
GetTerrainResources(terrain_type) ==
    CASE terrain_type = "plains"    -> <<"grain", "horses">>
      [] terrain_type = "hills"     -> <<"stone", "iron">>
      [] terrain_type = "mountains" -> <<"stone", "iron", "gems">>
      [] terrain_type = "forests"   -> <<"wood", "herbs">>
      [] terrain_type = "swamps"    -> <<"herbs", "rare_materials">>
      [] terrain_type = "deserts"   -> <<"rare_minerals">>
      [] OTHER                      -> <<>>

\* The requests: every size of at most MaxGenCells cells with the default
\* population_density 0.3 (in hundredths), which asks for one settlement, on a
\* palette with a terrain the naming table lacks or with one no settlement is
\* placed on; and every size of at most MaxDenseCells cells with the density
\* 1.0, which asks for a settlement on every cell, on the second palette.
GenPalettes == {<<"plains", "water">>, <<"plains", "mountains">>}

DensePalettes == {<<"plains", "mountains">>}

GenSizes(cells) == {s \in (1..cells) \X (1..cells) : s[1] * s[2] <= cells}

GenRequests ==
    {[width |-> s[1], height |-> s[2], terrain_types |-> p, population_density |-> 30] :
        s \in GenSizes(MaxGenCells), p \in GenPalettes}
    \cup
    {[width |-> s[1], height |-> s[2], terrain_types |-> p, population_density |-> 100] :
        s \in GenSizes(MaxDenseCells), p \in DensePalettes}

\* generate_world up to its terrain loops: the parameters are read, the
\* generators are fresh and world_data has its metadata and no cells.
InitGen ==
    /\ hashSalt = 0
    /\ rngState = 0
    /\ call = NoCall
    /\ quoted = {}
    /\ query = None
    /\ directions = <<>>
    /\ pc = "idle"
    /\ scan = <<0, 0>>
    /\ target_terrain = None
    /\ stack = <<>>
    /\ cluster = <<>>
    /\ visited = {}
    /\ clusters = <<>>
    /\ hex_to_cluster = <<>>
    /\ params \in GenRequests
    /\ world_data = [width |-> params.width, height |-> params.height,
                     wrap_east_west |-> TRUE, hexes |-> <<>>,
                     population_centers |-> <<>>]
    /\ gpc = "terrain"
    /\ gen_pos = <<0, 0>>
    /\ geo_used = {}
    /\ settle_used = {}
    /\ name_index = 0
    /\ num_settlements = 0
    /\ placed_settlements = 0
    /\ attempts = 0
    /\ stale_names = {}

\* A variant of the cell key that forgets the row.
GenHexIdColumnOnly(x, y) == <<x, 0>>

\* hex_id = f"{x},{y}" of the terrain loops.
GenHexId(x, y) == <<x, y>>

\* A cell's population_center is None or a dict: the empty sequence stands for
\* None and the one-element sequence <<d>> for the dict d.
NoCenter == <<>>

\* One iteration of the terrain loops: the cell at gen_pos gets a terrain of
\* the palette, its resources, no population centre and no geographic name.
\* (location_id is a random label nothing reads; it is left out.)
GenerateHex ==
    /\ gpc = "terrain"
    /\ ~ScanEnded(gen_pos)
    /\ \E terrain \in Range(params.terrain_types) :
        LET hex_id == GenHexId(gen_pos[1], gen_pos[2])
            cell == [terrain |-> terrain,
                     resources |-> GetTerrainResources(terrain),
                     population_center |-> NoCenter,
                     geographic_name |-> NoName]
        IN  world_data' = [world_data EXCEPT !.hexes =
                [h \in (DOMAIN world_data.hexes) \cup {hex_id} |->
                    IF h = hex_id THEN cell ELSE world_data.hexes[h]]]
    /\ gen_pos' = NextScan(gen_pos)
    /\ UNCHANGED <<gpc, params, geo_used, settle_used, name_index, num_settlements,
                   placed_settlements, attempts, stale_names>>
    /\ UNCHANGED <<hashSalt, rngState, moveVars, hexVars, clusterVars>>

\* The terrain loops are done: TerrainClusterer(world_data) and the entry of
\* find_clusters.
BeginClusters ==
    /\ gpc = "terrain"
    /\ ScanEnded(gen_pos)
    /\ gpc' = "naming"
    /\ pc' = "scan"
    /\ scan' = <<0, 0>>
    /\ target_terrain' = None
    /\ stack' = <<>>
    /\ cluster' = <<>>
    /\ visited' = {}
    /\ clusters' = <<>>
    /\ hex_to_cluster' = <<>>
    /\ UNCHANGED <<params, gen_pos, geo_used, settle_used, name_index, num_settlements,
                   placed_settlements, attempts, stale_names>>
    /\ UNCHANGED <<hashSalt, rngState, moveVars, world_data, hexVars>>

\* One iteration of the naming loop, in the order of the cluster ids: the
\* cluster gets a name of the geographic generator and every cell of the
\* cluster gets the same name.
NameCluster ==
    /\ gpc = "naming"
    /\ pc = "done"
    /\ name_index < Len(clusters)
    /\ LET cluster_data == clusters[name_index + 1]
           members == Range(cluster_data.hexes)
       IN  \E r \in GenerateGeographicName(cluster_data.terrain, geo_used) :
            /\ clusters' = [clusters EXCEPT ![name_index + 1].name = r.name]
            /\ world_data' = [world_data EXCEPT !.hexes =
                    [h \in DOMAIN world_data.hexes |->
                        IF h \in members
                        THEN [world_data.hexes[h] EXCEPT !.geographic_name = r.name]
                        ELSE world_data.hexes[h]]]
            /\ geo_used' = r.used_names
    /\ name_index' = name_index + 1
    /\ UNCHANGED <<gpc, params, gen_pos, settle_used, num_settlements,
                   placed_settlements, attempts, stale_names>>
    /\ UNCHANGED <<hashSalt, rngState, moveVars, hexVars, pc, scan, target_terrain,
                   stack, cluster, visited, hex_to_cluster>>

\* The naming loop is done: num_settlements = max(1, int(width * height *
\* population_density)), with the density in hundredths (the products of the
\* requests truncate to the same integer as Python's floats), and the
\* counters of the placement loop start at 0.
BeginSettle ==
    /\ gpc = "naming"
    /\ pc = "done"
    /\ name_index = Len(clusters)
    /\ gpc' = "settle"
    /\ num_settlements' =
            Max(1, (params.width * params.height * params.population_density) \div 100)
    /\ placed_settlements' = 0
    /\ attempts' = 0
    /\ UNCHANGED <<params, gen_pos, geo_used, settle_used, name_index, stale_names>>
    /\ UNCHANGED <<hashSalt, rngState, moveVars, world_data, hexVars, clusterVars>>

\* A variant of the placement test that refuses swamps only.
PlaceableSwampsOnly(hex_terrain) == hex_terrain \notin {"swamps"}

\* The placement loop's test on the terrain of the drawn cell.
Placeable(hex_terrain) == hex_terrain \notin {"mountains", "swamps"}

\* One iteration of the placement loop on a random cell: a settlement is
\* placed when the terrain allows it and the cell has none, the first one a
\* city and the others villages; the attempt is counted either way.
PlaceAttempt ==
    /\ gpc = "settle"
    /\ placed_settlements < num_settlements
    /\ attempts < PlacementAttempts
    /\ \E x \in 0..(params.width - 1), y \in 0..(params.height - 1) :
        LET hex_id == GenHexId(x, y)
            hex_terrain == world_data.hexes[hex_id].terrain
        IN  IF Placeable(hex_terrain)
                   /\ world_data.hexes[hex_id].population_center = NoCenter
            THEN LET settlement_id == <<"settlement", placed_settlements + 1>>
                     settlement_type == IF placed_settlements = 0 THEN "city" ELSE "village"
                     population == IF settlement_type = "city" THEN 1000 ELSE 500
                 IN  \E r \in GenerateName(hex_terrain, settlement_type, settle_used) :
                        /\ world_data' = [world_data EXCEPT
                                !.population_centers =
                                    [s \in (DOMAIN world_data.population_centers)
                                            \cup {settlement_id} |->
                                        IF s = settlement_id
                                        THEN [hex |-> hex_id, type |-> settlement_type,
                                              race |-> "human", population |-> population,
                                              name |-> r.name]
                                        ELSE world_data.population_centers[s]],
                                !.hexes[hex_id].population_center =
                                    <<[type |-> settlement_type, name |-> r.name,
                                       population |-> population]>>]
                        /\ settle_used' = r.used_names
                        /\ stale_names' = stale_names \cup ({r.name} \cap settle_used)
                        /\ placed_settlements' = placed_settlements + 1
            ELSE UNCHANGED <<world_data, settle_used, stale_names, placed_settlements>>
    /\ attempts' = attempts + 1
    /\ UNCHANGED <<gpc, params, gen_pos, geo_used, name_index, num_settlements>>
    /\ UNCHANGED <<hashSalt, rngState, moveVars, hexVars, clusterVars>>

\* The placement loop is done: return jsonify(world_data).
ReturnWorld ==
    /\ gpc = "settle"
    /\ ~(placed_settlements < num_settlements /\ attempts < PlacementAttempts)
    /\ gpc' = "returned"
    /\ UNCHANGED <<params, gen_pos, geo_used, settle_used, name_index, num_settlements,
                   placed_settlements, attempts, stale_names>>
    /\ UNCHANGED <<hashSalt, rngState, moveVars, world_data, hexVars, clusterVars>>

NextGen ==
    \/ GenerateHex
    \/ BeginClusters
    \/ ScanSkip
    \/ ScanStart
    \/ FloodFillStep
    \/ FloodFillReturn
    \/ FindClustersReturn
    \/ NameCluster
    \/ BeginSettle
    \/ PlaceAttempt
    \/ ReturnWorld

SpecGen == InitGen /\ [][NextGen]_vars

\* The handler is one thread of control that runs until it returns.
SpecGenFair == InitGen /\ [][NextGen]_vars /\ WF_vars(NextGen)

\* ---------------------------------------------------------------------------
\* Properties of calculate_movement_time (SpecMove)
\* ---------------------------------------------------------------------------

PassableQuotes == {q \in quoted : ~q.quote.impassable}

\* The walking quote for the arguments of `call`.
WalkingQuote ==
    CalculateMovementTime(call.from_terrain, call.to_terrain, "walking",
                          call.from_coords, call.to_coords)

BaseTime ==
    TerrainCost(call.from_terrain).base_exit_time
        + TerrainCost(call.to_terrain).base_enter_time

FlyingIsConstant ==
    call.movement_type = "flying" =>
        \A q \in quoted : ~q.quote.impassable /\ q.quote.days = FlyingDays

\* C9 (as stated): walking and riding are impassable as soon as the source or
\* the destination terrain is flagged impassable.
ImpassableEitherEndpoint ==
    (/\ call.movement_type \in {"walking", "riding"}
     /\ \/ ~TerrainCost(call.from_terrain).passable
        \/ ~TerrainCost(call.to_terrain).passable)
        => \A q \in quoted : q.quote.impassable

\* C10: a passable walking quote lies between exit + enter + min_bonus and
\* exit + enter + max_bonus and is at least 1; a passable riding quote is
\* max(1, floor(0.67 * walking)) and lies between 1 and the walking quote.
RidingWithinWalking ==
    \A q \in PassableQuotes :
        /\ call.movement_type \notin {"riding", "flying"} =>
              /\ q.quote.days >= BaseTime + min_bonus
              /\ q.quote.days <= BaseTime + max_bonus
              /\ q.quote.days >= 1
        /\ call.movement_type = "riding" =>
              /\ q.quote.days = Max(1, (WalkingQuote.days * 67) \div 100)
              /\ q.quote.days >= 1
              /\ q.quote.days <= WalkingQuote.days
              /\ WalkingQuote.days >= BaseTime + min_bonus
              /\ WalkingQuote.days <= BaseTime + max_bonus

\* C10 witness: a riding quote between coordinates that is strictly shorter
\* than the walking quote, which sits at the top of its range.
RidingWithinWalkingWitness ==
    /\ call.movement_type = "riding"
    /\ call.from_coords # None /\ call.to_coords # None
    /\ \E q \in PassableQuotes :
          /\ q.quote.days < WalkingQuote.days
          /\ WalkingQuote.days = BaseTime + max_bonus

\* ---------------------------------------------------------------------------
\* Properties of calculate_all_directions (SpecHex)
\* ---------------------------------------------------------------------------

InBoundsQuery ==
    /\ query # None
    /\ HexId(query[1], query[2]) \in DOMAIN world_data.hexes

Compass == {direction_order[i] : i \in 1..Len(direction_order)}

Opposite(d) ==
    CASE d = "North" -> "South"
      [] d = "South" -> "North"
      [] d = "Northeast" -> "Southwest"
      [] d = "Southwest" -> "Northeast"
      [] d = "Southeast" -> "Northwest"
      [] d = "Northwest" -> "Southeast"

\* The offset table of the vertical-column layout: the offset of compass
\* direction d from a cell of column x.
ColumnOffset(d, x) ==
    IF x % 2 = 0
    THEN CASE d = "North" -> <<0, -1>>
           [] d = "Northeast" -> <<1, -1>>
           [] d = "Southeast" -> <<1, 0>>
           [] d = "South" -> <<0, 1>>
           [] d = "Southwest" -> <<-1, 0>>
           [] d = "Northwest" -> <<-1, -1>>
    ELSE CASE d = "North" -> <<0, -1>>
           [] d = "Northeast" -> <<1, 0>>
           [] d = "Southeast" -> <<1, 1>>
           [] d = "South" -> <<0, 1>>
           [] d = "Southwest" -> <<-1, 1>>
           [] d = "Northwest" -> <<-1, 0>>

Entries == {directions[i] : i \in 1..Len(directions)}

\* C1: whenever the query from A lists B under a compass direction, the query
\* from B lists A under the opposite direction.
AdjacencySymmetry ==
    InBoundsQuery =>
        \A i \in 1..Len(directions) :
            directions[i].direction \in Compass =>
                LET b == directions[i].coordinates
                    back == CalculateAllDirections(b[1], b[2], world_data)
                IN  \E j \in 1..Len(back) :
                        /\ back[j].coordinates = query
                        /\ back[j].direction = Opposite(directions[i].direction)

\* C1 witness: a query from an odd row that lists a north, a south-west, a
\* north-west and a south-east neighbour.
AdjacencySymmetryWitness ==
    /\ InBoundsQuery
    /\ query[2] % 2 = 1
    /\ \A d \in {"North", "Southwest", "Northwest", "Southeast"} :
          \E i \in 1..Len(directions) : directions[i].direction = d

\* C2 (as stated): for every compass direction whose column-parity target lies
\* in the grid, the entry listed under that direction is that target.
ColumnParityOffsets ==
    InBoundsQuery =>
        \A d \in Compass :
            LET off == ColumnOffset(d, query[1])
                t == <<query[1] + off[1], query[2] + off[2]>>
            IN  t \in DOMAIN world_data.hexes =>
                    /\ \E i \in 1..Len(directions) : directions[i].direction = d
                    /\ \A i \in 1..Len(directions) :
                          directions[i].direction = d => directions[i].coordinates = t

\* C3 (as stated): with the east-west wrap flag set, a query from column 0 lists
\* a Southwest neighbour, and from row 1 on a Northwest neighbour, in column
\* width - 1, and a query from column width - 1 lists a neighbour in column 0;
\* no listed neighbour lies outside the rows of the grid.
EastWestWrap ==
    InBoundsQuery =>
        /\ \A i \in 1..Len(directions) :
              /\ directions[i].coordinates[2] >= 0
              /\ directions[i].coordinates[2] < world_data.height
        /\ (world_data.wrap_east_west /\ world_data.width >= 3 /\ query[1] = 0) =>
              /\ \E i \in 1..Len(directions) :
                    /\ directions[i].direction = "Southwest"
                    /\ directions[i].coordinates[1] = world_data.width - 1
              /\ query[2] >= 1 =>
                    \E i \in 1..Len(directions) :
                        /\ directions[i].direction = "Northwest"
                        /\ directions[i].coordinates[1] = world_data.width - 1
        /\ (world_data.wrap_east_west /\ world_data.width >= 3
                /\ query[1] = world_data.width - 1) =>
              \E i \in 1..Len(directions) : directions[i].coordinates[1] = 0

\* C4 (as stated): the list has six entries, named by direction_order in that
\* order, and an entry whose neighbour is outside the grid has terrain
\* "boundary" and is impassable on foot, on horseback and in flight.
SixDirections ==
    InBoundsQuery =>
        /\ Len(directions) = Len(direction_order)
        /\ \A i \in 1..Len(directions) :
              /\ directions[i].direction = direction_order[i]
              /\ directions[i].coordinates \notin DOMAIN world_data.hexes =>
                    /\ directions[i].target_terrain = "boundary"
                    /\ directions[i].movement.walking.impassable
                    /\ directions[i].movement.riding.impassable
                    /\ directions[i].movement.flying.impassable

\* ---------------------------------------------------------------------------
\* Properties of find_clusters (SpecCluster)
\* ---------------------------------------------------------------------------

WorldCells == DOMAIN world_data.hexes

\* The places <<cluster, position>> at which a cell is listed.
Listings(c) ==
    {p \in (1..Len(clusters)) \X (1..(world_data.width * world_data.height)) :
        /\ p[2] <= Len(clusters[p[1]].hexes)
        /\ clusters[p[1]].hexes[p[2]] = c}

\* C5: when find_clusters has returned, every cell is listed once, in one
\* cluster, every listed cell has the terrain of its cluster, and
\* hex_to_cluster maps every cell to the cluster that lists it.
ClusteringPartition ==
    pc = "done" =>
        /\ \A c \in WorldCells :
              /\ Cardinality(Listings(c)) = 1
              /\ c \in DOMAIN hex_to_cluster
              /\ \E p \in Listings(c) : p[1] = hex_to_cluster[c] + 1
        /\ \A k \in 1..Len(clusters) :
              \A i \in 1..Len(clusters[k].hexes) :
                  /\ clusters[k].hexes[i] \in WorldCells
                  /\ world_data.hexes[clusters[k].hexes[i]].terrain = clusters[k].terrain

\* C5 witness: find_clusters has returned several clusters, one of them of at
\* least three cells, on a grid of at least two rows and two columns.
ClusteringPartitionWitness ==
    /\ pc = "done"
    /\ world_data.width >= 2 /\ world_data.height >= 2
    /\ Len(clusters) >= 2
    /\ \E k \in 1..Len(clusters) : Len(clusters[k].hexes) >= 3

\* The neighbours of cell c under the vertical-column layout: the column-parity
\* offsets, the column taken modulo the width when the world's east-west wrap
\* flag is set, no wrap of the rows.
ColumnNeighbors(c) ==
    LET Target(d) ==
            LET off == ColumnOffset(d, c[1])
            IN  <<IF world_data.wrap_east_west
                  THEN (c[1] + off[1]) % world_data.width
                  ELSE c[1] + off[1],
                  c[2] + off[2]>>
    IN  {Target(d) : d \in Compass} \cap (WorldCells \ {c})

RECURSIVE ReachableWithin(_, _)
\* The cells of `members` that column adjacency reaches from `reached`.
ReachableWithin(reached, members) ==
    LET more == {m \in members \ reached : \E r \in reached : m \in ColumnNeighbors(r)}
    IN  IF more = {} THEN reached ELSE ReachableWithin(reached \cup more, members)

\* C6 (as stated): when find_clusters has returned, two cells of equal terrain
\* that are neighbours under the vertical-column layout (with east-west wrap)
\* are in the same cluster, and every cluster is connected under that adjacency.
MaximalColumnComponents ==
    pc = "done" =>
        /\ \A a \in WorldCells : \A b \in ColumnNeighbors(a) :
              world_data.hexes[a].terrain = world_data.hexes[b].terrain
                  => hex_to_cluster[a] = hex_to_cluster[b]
        /\ \A k \in 1..Len(clusters) :
              LET members == {clusters[k].hexes[i] : i \in 1..Len(clusters[k].hexes)}
              IN  ReachableWithin({clusters[k].hexes[1]}, members) = members

\* ---------------------------------------------------------------------------
\* Properties of generate_world (SpecGen)
\* ---------------------------------------------------------------------------

\* The clusters the naming loop has named so far.
NamedClusters == 1..name_index

\* C11: within one run of generate_world no two distinct clusters get the
\* same geographic name, whatever the palette (terrains without naming data
\* included) and however many clusters there are.
GeographicNamesUnique ==
    gpc \in {"naming", "settle", "returned"} =>
        \A i \in NamedClusters, j \in NamedClusters :
            i # j => clusters[i].name # clusters[j].name

\* The settlements placed so far, and the cells of the request.
Settlements == DOMAIN world_data.population_centers

GenCells == Cells(params.width, params.height)

\* C12: within one run of generate_world no two settlements get the same name,
\* and no name generate_name returned was in used_names before the call, the
\* calls that exhaust their attempts and take a counter included.
SettlementNamesUnique ==
    gpc \in {"settle", "returned"} =>
        /\ stale_names = {}
        /\ \A s \in Settlements, t \in Settlements :
                s # t => world_data.population_centers[s].name
                            # world_data.population_centers[t].name

\* A run returned two settlements, one of them named with a counter.
SettlementNamesUniqueWitness ==
    /\ gpc = "returned"
    /\ placed_settlements >= 2
    /\ \E s \in Settlements :
            /\ Len(world_data.population_centers[s].name) = 3
            /\ world_data.population_centers[s].name[3] = 2

\* C13: no settlement is on a cell whose terrain the movement table marks
\* impassable, no two settlements are on one cell, and every entry of
\* population_centers points at a cell whose population_center carries the
\* entry's name and type.
SettlementPlacement ==
    gpc \in {"settle", "returned"} =>
        /\ \A s \in Settlements :
                LET center == world_data.population_centers[s]
                    cell == world_data.hexes[center.hex]
                IN  /\ TerrainCost(cell.terrain).passable
                    /\ cell.population_center # NoCenter
                    /\ cell.population_center[1].name = center.name
                    /\ cell.population_center[1].type = center.type
        /\ \A s \in Settlements, t \in Settlements :
                s # t => world_data.population_centers[s].hex
                            # world_data.population_centers[t].hex

\* A run on a world with a mountain cell returned a settlement after at least
\* one refused attempt.
SettlementPlacementWitness ==
    /\ gpc = "returned"
    /\ Settlements # {}
    /\ attempts > placed_settlements
    /\ \E c \in GenCells : world_data.hexes[c].terrain = "mountains"

\* C14: the generated world has exactly width * height cells, one for every
\* coordinate of the grid and none outside it, and clustering, naming and
\* placement leave the set of cells as the terrain loops built it.
TotalCoverage ==
    /\ gpc = "terrain" => DOMAIN world_data.hexes \subseteq GenCells
    /\ gpc \in {"naming", "settle", "returned"} =>
            /\ DOMAIN world_data.hexes = GenCells
            /\ Cardinality(DOMAIN world_data.hexes) = params.width * params.height

\* A run on a grid of MaxGenCells cells in more than one row and more than
\* one column returned with a settlement placed.
TotalCoverageWitness ==
    /\ gpc = "returned"
    /\ params.width > 1
    /\ params.height > 1
    /\ Cardinality(DOMAIN world_data.hexes) = MaxGenCells
    /\ placed_settlements >= 1

\* Every cell of the world has a terrain of the palette, the resource list of
\* its terrain and the name of the cluster it belongs to, which is not None.
WorldComplete ==
    \A c \in GenCells :
        /\ c \in DOMAIN world_data.hexes
        /\ world_data.hexes[c].terrain \in Range(params.terrain_types)
        /\ world_data.hexes[c].resources = GetTerrainResources(world_data.hexes[c].terrain)
        /\ world_data.hexes[c].geographic_name # NoName
        /\ c \in DOMAIN hex_to_cluster
        /\ clusters[hex_to_cluster[c] + 1].name # NoName
        /\ world_data.hexes[c].geographic_name = clusters[hex_to_cluster[c] + 1].name

\* C15: generate_world terminates for every request with width > 0,
\* height > 0 and a non-empty palette, and the world it returns is complete.
GenerateWorldTerminates == <>(gpc = "returned" /\ WorldComplete)

\* A run returned after the placement loop used up all its attempts, on a
\* world where some cluster took a name with a counter.
GenerateWorldTerminatesWitness ==
    /\ gpc = "returned"
    /\ attempts = PlacementAttempts
    /\ WorldComplete
    /\ \E i \in 1..Len(clusters) : Len(clusters[i].name) = 3
====
